---------------------------- MODULE Spec2Model ----------------------------
(***************************************************************************)
(* Model of src/main.py: the request handler analisar_usuario, the         *)
(* per-game analysis analyze_game_process_safe run by the workers of a     *)
(* ProcessPoolExecutor, and the scorer avaliar_suspeita.                   *)
(*                                                                         *)
(* Python floats are IEEE-754 doubles.  The scorer and the accuracy        *)
(* computation are evaluated here in double arithmetic (53-bit significand,*)
(* round to nearest, ties to even) built on naturals of arbitrary size,    *)
(* because the verdict compares a double against 75.                       *)
(***************************************************************************)
EXTENDS Integers, Sequences, FiniteSets, TLC

(***************************************************************************)
(* Naturals of arbitrary size: little-endian sequences of limbs, without   *)
(* leading zero limbs; <<>> is zero.  A limb product stays below 2^31.     *)
(* The parameters of the recursive operators carry a suffix, so that no    *)
(* name of a caller coincides with them.                                   *)
(***************************************************************************)
LimbBase == 2^14

RECURSIVE BNorm(_)
BNorm(a_N) ==
    IF a_N = <<>> THEN <<>>
    ELSE IF a_N[Len(a_N)] = 0 THEN BNorm(SubSeq(a_N, 1, Len(a_N) - 1))
    ELSE a_N

RECURSIVE BFromInt(_)
BFromInt(n_F) ==
    IF n_F = 0 THEN <<>> ELSE <<n_F % LimbBase>> \o BFromInt(n_F \div LimbBase)

RECURSIVE BToInt(_)
BToInt(a_T) ==
    IF a_T = <<>> THEN 0 ELSE a_T[1] + LimbBase * BToInt(Tail(a_T))

Limb(a, i) == IF i <= Len(a) THEN a[i] ELSE 0

RECURSIVE BAddC(_, _, _, _)
BAddC(a_A, b_A, i_A, c_A) ==
    IF i_A > Len(a_A) /\ i_A > Len(b_A)
    THEN IF c_A = 0 THEN <<>> ELSE <<c_A>>
    ELSE LET s_A == Limb(a_A, i_A) + Limb(b_A, i_A) + c_A
         IN  <<s_A % LimbBase>> \o BAddC(a_A, b_A, i_A + 1, s_A \div LimbBase)

BAdd(a, b) == BAddC(a, b, 1, 0)

RECURSIVE BSubC(_, _, _, _)
BSubC(a_S, b_S, i_S, br_S) ==
    IF i_S > Len(a_S) THEN <<>>
    ELSE LET d_S == Limb(a_S, i_S) - Limb(b_S, i_S) - br_S
         IN  IF d_S < 0 THEN <<d_S + LimbBase>> \o BSubC(a_S, b_S, i_S + 1, 1)
                        ELSE <<d_S>> \o BSubC(a_S, b_S, i_S + 1, 0)

\* a - b, for a >= b
BSub(a, b) == BNorm(BSubC(a, b, 1, 0))

RECURSIVE BCmpFrom(_, _, _)
BCmpFrom(a_C, b_C, i_C) ==
    IF i_C = 0 THEN 0
    ELSE IF a_C[i_C] # b_C[i_C] THEN (IF a_C[i_C] < b_C[i_C] THEN -1 ELSE 1)
    ELSE BCmpFrom(a_C, b_C, i_C - 1)

\* -1, 0 or 1 as a < b, a = b, a > b
BCmp(a, b) ==
    IF Len(a) # Len(b) THEN (IF Len(a) < Len(b) THEN -1 ELSE 1)
    ELSE BCmpFrom(a, b, Len(a))

BDouble(a) == BAdd(a, a)

RECURSIVE BMulSmallC(_, _, _, _)
BMulSmallC(a_K, k_K, i_K, c_K) ==
    IF i_K > Len(a_K)
    THEN IF c_K = 0 THEN <<>> ELSE <<c_K>>
    ELSE LET s_K == a_K[i_K] * k_K + c_K
         IN  <<s_K % LimbBase>>
             \o BMulSmallC(a_K, k_K, i_K + 1, s_K \div LimbBase)

\* a * k, for a limb k
BMulSmall(a, k) == BNorm(BMulSmallC(a, k, 1, 0))

RECURSIVE BitLenSmall(_)
BitLenSmall(n_B) == IF n_B = 0 THEN 0 ELSE 1 + BitLenSmall(n_B \div 2)

LimbBits == BitLenSmall(LimbBase - 1)

\* the number of binary digits of a
BitLen(a) ==
    IF a = <<>> THEN 0 ELSE LimbBits * (Len(a) - 1) + BitLenSmall(a[Len(a)])

\* a * 2^k
BShl(a, k) ==
    IF a = <<>> THEN <<>>
    ELSE [i \in 1..(k \div LimbBits) |-> 0] \o BMulSmall(a, 2^(k % LimbBits))

RECURSIVE BMul(_, _)
BMul(a_M, b_M) ==
    IF a_M = <<>> \/ b_M = <<>> THEN <<>>
    ELSE BAdd(BMulSmall(a_M, b_M[1]), BNorm(<<0>> \o BMul(a_M, Tail(b_M))))

\* the largest d in lo_G..hi_G with b_G * d <= r_G, given b_G * lo_G <= r_G
RECURSIVE BDigit(_, _, _, _)
BDigit(r_G, b_G, lo_G, hi_G) ==
    IF lo_G = hi_G THEN lo_G
    ELSE IF BCmp(BMulSmall(b_G, (lo_G + hi_G + 1) \div 2), r_G) <= 0
         THEN BDigit(r_G, b_G, (lo_G + hi_G + 1) \div 2, hi_G)
         ELSE BDigit(r_G, b_G, lo_G, (lo_G + hi_G + 1) \div 2 - 1)

\* a div 2^k
BShr(a, k) ==
    BNorm([i \in 1..(Len(a) - (k \div LimbBits)) |->
             (a[i + (k \div LimbBits)] \div 2^(k % LimbBits))
             + (Limb(a, i + (k \div LimbBits) + 1) % 2^(k % LimbBits))
               * 2^(LimbBits - (k % LimbBits))])

\* the binary digits of b below its leading limb's worth
BLowBits(b) == IF BitLen(b) > LimbBits THEN BitLen(b) - LimbBits ELSE 0

Min(x, y) == IF x < y THEN x ELSE y

\* rh div b for rh < b * LimbBase: the leading digits of rh and b bound the
\* quotient from both sides
BQuotLimb(rh, b, rt, bt) ==
    BDigit(rh, b, rt \div (bt + 1), Min(LimbBase - 1, (rt + 1) \div bt))

BDivLow(qh, rh, b, d) ==
    <<BNorm(<<d>> \o qh), BSub(rh, BMulSmall(b, d))>>

BDivStep(h, b) ==
    BDivLow(h[1], h[2], b,
            BQuotLimb(h[2], b, BToInt(BShr(h[2], BLowBits(b))),
                      BToInt(BShr(b, BLowBits(b)))))

\* <<a div b, a mod b>>, for b > 0: long division, a limb of the quotient
\* at a time
RECURSIVE BDivMod(_, _)
BDivMod(a_D, b_D) ==
    IF BCmp(a_D, b_D) < 0 THEN <<(<<>>), a_D>>
    ELSE BDivStep(BDivMod(a_D, <<0>> \o b_D), b_D)

BOdd(a) == a # <<>> /\ a[1] % 2 = 1

\* p / q rounded to the nearest natural, a tie to the even one
BRoundDiv(p, q) ==
    LET dm == BDivMod(p, q)
        c  == BCmp(BDouble(dm[2]), q)
    IN  IF c > 0 \/ (c = 0 /\ BOdd(dm[1])) THEN BAdd(dm[1], <<1>>) ELSE dm[1]

(***************************************************************************)
(* Doubles: [m, e] is the value m * 2^e, m a natural, never negative here  *)
(* (every quantity of the program is a count, a ratio of counts or a sum   *)
(* of them).  RN rounds the exact value p/q * 2^e to the nearest double;   *)
(* the values of the program are far from the subnormal and overflow       *)
(* ranges.                                                                 *)
(***************************************************************************)
FZero == [m |-> <<>>, e |-> 0]

\* p * 2^k / q lies in [2^52, 2^54) for k = RNShift(p, q)
RNShift(p, q) == 53 + BitLen(q) - BitLen(p)

RNNum(p, k) == IF k >= 0 THEN BShl(p, k) ELSE p

RNDen(q, k) == IF k >= 0 THEN q ELSE BShl(q, 0 - k)

RNAt(p, q, e, k) == [m |-> BRoundDiv(RNNum(p, k), RNDen(q, k)), e |-> e - k]

\* k or k - 1, whichever puts p * 2^k / q in [2^52, 2^53)
RNPick(p, q, e, k) ==
    IF BCmp(RNNum(p, k), BShl(RNDen(q, k), 53)) >= 0
    THEN RNAt(p, q, e, k - 1)
    ELSE RNAt(p, q, e, k)

RN(p, q, e) == IF p = <<>> THEN FZero ELSE RNPick(p, q, e, RNShift(p, q))

\* the double of an int below 2^53 is the int itself
FFromInt(n) == [m |-> BFromInt(n), e |-> 0]

FMul(x, y) == RN(BMul(x.m, y.m), <<1>>, x.e + y.e)

FDiv(x, y) == RN(x.m, y.m, x.e - y.e)

FMinE(x, y) == IF x.e < y.e THEN x.e ELSE y.e

FAdd(x, y) ==
    IF x.m = <<>> THEN y
    ELSE IF y.m = <<>> THEN x
    ELSE LET e == FMinE(x, y)
         IN  RN(BAdd(BShl(x.m, x.e - e), BShl(y.m, y.e - e)), <<1>>, e)

\* -1, 0 or 1 as x < y, x = y, x > y
FCmp(x, y) ==
    IF x.m = <<>> \/ y.m = <<>>
    THEN BCmp(x.m, y.m)
    ELSE LET e == FMinE(x, y)
         IN  BCmp(BShl(x.m, x.e - e), BShl(y.m, y.e - e))

\* the decimal literal n/d of the source text, as the double Python reads
FLit(n, d) == RN(BFromInt(n), BFromInt(d), 0)

\* round(x, 2) of a double x, as its number of hundredths: the exact value
\* of x to the nearest hundredth, a tie to the even one
Round2(x) ==
    IF x.e >= 0
    THEN BToInt(BShl(BMulSmall(x.m, 100), x.e))
    ELSE BToInt(BRoundDiv(BMulSmall(x.m, 100), BShl(<<1>>, 0 - x.e)))

(***************************************************************************)
(* A GameResult is [oponente, resultado, precisao, url]; precisao is kept  *)
(* as the number of hundredths of the two-decimal float that round()       *)
(* returned, and PrecisaoF is that float.                                  *)
(***************************************************************************)
PrecisaoF(h) == RN(BFromInt(h), BFromInt(100), 0)

\* the literals of lines 67, 85 and 88-99
F100 == FFromInt(100)

F90 == FFromInt(90)

F75 == FFromInt(75)

F05 == FLit(5, 10)

F03 == FLit(3, 10)

F02 == FLit(2, 10)

\* line 67: round((best_moves / total_moves) * 100, 2) if total_moves else 0
Precisao(best_moves, total_moves) ==
    IF total_moves = 0 THEN 0
    ELSE Round2(FMul(FDiv(FFromInt(best_moves), FFromInt(total_moves)),
                     F100))

\* line 83
Vitorias(jogos) ==
    Cardinality({i \in DOMAIN jogos : jogos[i].resultado = "win"})

\* line 84: sum(...) adds from the left.  (CPython 3.12 and later compensate
\* the sum; both give the same double whenever the partial sums are exact,
\* as they are for the accuracies the bounds below produce.)
RECURSIVE SomaPrecisao(_, _)
SomaPrecisao(jogos_P, n_P) ==
    IF n_P = 0 THEN FZero
    ELSE FAdd(SomaPrecisao(jogos_P, n_P - 1), PrecisaoF(jogos_P[n_P].precisao))

MediaPrecisao(jogos) ==
    FDiv(SomaPrecisao(jogos, Len(jogos)), FFromInt(Len(jogos)))

\* line 85: the accuracy bound of a "very accurate" game
AltaPrecisao(h) == FCmp(PrecisaoF(h), F90) > 0

PartidasPrecisas(jogos) ==
    Cardinality({i \in DOMAIN jogos : AltaPrecisao(jogos[i].precisao)})

\* lines 88-96
Score(jogos) ==
    LET total             == FFromInt(Len(jogos))
        vitorias_pct      == FDiv(FFromInt(Vitorias(jogos)), total)
        precisao_alta_pct == FDiv(FFromInt(PartidasPrecisas(jogos)), total)
    IN  FMul(FAdd(FAdd(FMul(FDiv(MediaPrecisao(jogos), F100), F05),
                       FMul(vitorias_pct, F03)),
                  FMul(precisao_alta_pct, F02)),
             F100)

\* line 99
Limiar(score) == FCmp(score, F75) >= 0

\* lines 77-99
avaliar_suspeita(jogos) ==
    IF Len(jogos) = 0 THEN FALSE ELSE Limiar(Score(jogos))

(***************************************************************************)
(* Bounds of the model.                                                    *)
(***************************************************************************)
\* multiprocessing.cpu_count() of the host
Workers == 2
\* game records returned by the archive service for one request
MaxGames == 3
\* half-moves of a replayed game
MaxPly == 2
\* GameResults handed to the scorer on its own
MaxBatch == 2

\* line 111
max_partidas == 10

(***************************************************************************)
(* Inputs.  A handle is a string; Lower is str.lower() on the handles of   *)
(* the model.  A move is its UCI string; the engine answers a move or None *)
(* (no best move).  A game record of the archive service is                *)
(*   [has_players, white, black, pgn, url]                                 *)
(* where has_players says whether the keys "white" and "black" are there,  *)
(* pgn.present whether the record has a non-empty "pgn" text, pgn.moves    *)
(* the main line python-chess reads from that text, and url identifies the *)
(* record: <<archive, index>>.                                             *)
(***************************************************************************)
Lower(h) == IF h = "Alice" THEN "alice" ELSE h

Usernames == {"Alice"}

Moves == {"e2e4", "e7e5"}

None == "None"

STOCKFISH_PATH == "./bin/stockfish"

\* the results the archive service reports for <<white, black>>
ResultPairs == {<<"win", "checkmated">>, <<"resigned", "win">>}

NoPgn == [present |-> FALSE, moves |-> <<>>]

PgnOf(ms) == [present |-> TRUE, moves |-> ms]

SeqsUpTo(S, n) == UNION {[1..k -> S] : k \in 0..n}

Body(w, b, rp, hp, pgn) ==
    [has_players |-> hp,
     white |-> [username |-> w, result |-> rp[1]],
     black |-> [username |-> b, result |-> rp[2]],
     pgn |-> pgn]

\* a game record together with the engine's best move at each position of
\* its main line (position k: after k half-moves)
Case(body, best) == [body |-> body, best |-> best]

\* the cases of the pool specification: a game of the user as White, a
\* game of two other players, a game of the user as Black (stored in
\* another letter case) without move text
PoolCases ==
    { Case(Body("Alice", "bob", <<"win", "checkmated">>, TRUE,
                PgnOf(<<"e2e4">>)),
           [k \in 0..1 |-> IF k = 0 THEN "e2e4" ELSE "e7e5"]),
      Case(Body("bob", "carol", <<"resigned", "win">>, TRUE,
                PgnOf(<<"e2e4">>)),
           [k \in 0..1 |-> "e2e4"]),
      Case(Body("bob", "alice", <<"resigned", "win">>, TRUE, NoPgn),
           [k \in 0..0 |-> None]) }

ReplayHandles == {"Alice", "alice", "bob"}

ReplayPgns == {NoPgn} \cup {PgnOf(ms) : ms \in SeqsUpTo(Moves, MaxPly)}

\* the cases of the replay specification: every record over the handles,
\* results and move texts above with every engine, and a record without
\* the keys "white" and "black" (the model keeps its fields, unread)
ReplayCases ==
    UNION { { Case(Body(w, b, rp, TRUE, pgn), best) :
                w \in ReplayHandles, b \in ReplayHandles, rp \in ResultPairs,
                best \in [0..Len(pgn.moves) -> Moves \cup {None}] } :
            pgn \in ReplayPgns }
    \cup
    { Case(Body("Alice", "bob", <<"win", "checkmated">>, FALSE, NoPgn),
           [k \in 0..0 |-> None]) }

\* the archives (a sequence of game sequences) that a sequence of sequences
\* of cases stands for, each record with its url
ArchivesOf(cs) ==
    [a \in DOMAIN cs |->
       [g \in DOMAIN cs[a] |->
          [has_players |-> cs[a][g].body.has_players,
           white |-> cs[a][g].body.white,
           black |-> cs[a][g].body.black,
           pgn |-> cs[a][g].body.pgn,
           url |-> <<a, g>>]]]

\* the engine's best move, by record url and position
EngineOf(cs) ==
    [u \in UNION {{<<a, g>> : g \in DOMAIN cs[a]} : a \in DOMAIN cs}
       |-> cs[u[1]][u[2]].best]

\* no archive period, one, or two of which the older holds one record;
\* MaxGames records in all
PoolInputs ==
    {<<>>}
    \cup {<<s>> : s \in SeqsUpTo(PoolCases, MaxGames)}
    \cup {<< <<c>>, s >> : c \in PoolCases, s \in SeqsUpTo(PoolCases, MaxGames - 1)}

\* no archive period, or one with one record
ReplayInputs == {<<>>} \cup {<< <<c>> >> : c \in ReplayCases}

(***************************************************************************)
(* analisar_usuario, lines 110-123: the WorkUnits of a request.            *)
(***************************************************************************)
\* lines 118-120 without the comparison of line 120: every record with two
\* sides is taken
MatchesUserM(game, user) == game.has_players

\* lines 118-120
MatchesUser(game, user) ==
    /\ game.has_players
    /\ Lower(user) \in {Lower(game.white.username), Lower(game.black.username)}

\* line 121
WorkUnit(game, user) ==
    [game |-> game, username |-> user, stockfish_path |-> STOCKFISH_PATH]

\* lines 115-121: the games of one archive from index k on
RECURSIVE ScanGames(_, _, _, _)
ScanGames(games_G, k_G, user_G, partidas_G) ==
    IF k_G > Len(games_G) \/ Len(partidas_G) >= max_partidas
    THEN partidas_G
    ELSE ScanGames(games_G, k_G + 1, user_G,
                   IF MatchesUser(games_G[k_G], user_G)
                   THEN Append(partidas_G, WorkUnit(games_G[k_G], user_G))
                   ELSE partidas_G)

\* lines 113-123: the archives from index a down to 1 (reversed(archives))
RECURSIVE ScanArchives(_, _, _, _)
ScanArchives(archives_A, a_A, user_A, partidas_A) ==
    IF a_A = 0 \/ (a_A < Len(archives_A) /\ Len(partidas_A) >= max_partidas)
    THEN partidas_A
    ELSE ScanArchives(archives_A, a_A - 1, user_A,
                      ScanGames(archives_A[a_A], 1, user_A, partidas_A))

Partidas(archs, user) == ScanArchives(archs, Len(archs), user, <<>>)

(***************************************************************************)
(* analyze_game_process_safe, lines 42-74.                                 *)
(***************************************************************************)
\* line 44 with a second engine process started by the call
StockfishStartM(started) == started + 2

\* line 44: Stockfish(path=...) starts one more engine process
StockfishStart(started) == started + 1

\* one engine process behind every handle, as a module-level Stockfish
\* would be
StockfishHandleM(n) == 1

\* the handle of the process started as number n
StockfishHandle(n) == n

\* line 46
Opponent(game, user) ==
    IF game.black.username = user THEN game.white.username
    ELSE game.black.username

\* line 47
Result(game, user) ==
    IF game.white.username = user THEN game.white.result
    ELSE game.black.result

\* line 48
UserColor(game, user) ==
    IF game.white.username = user THEN "white" ELSE "black"

\* board.turn after k half-moves from the initial position
Turn(k) == IF k % 2 = 0 THEN "WHITE" ELSE "BLACK"

\* line 60: the iteration goes on to the next move without the engine
Skips(user_color, turn) ==
    \/ user_color = "white" /\ turn = "BLACK"
    \/ user_color = "black" /\ turn = "WHITE"

\* lines 62-63: the position handed to the engine when k half-moves are on
\* the board
QueriedPosition(k) == k

\* line 64: move.uci() of the iteration that pushed half-move k
ComparedMove(k) == k

\* the locals of a call before line 43
NoFrame ==
    [session |-> 0, opponent |-> "", result |-> "", user_color |-> "",
     ply |-> 0, best_moves |-> 0, total_moves |-> 0, log |-> <<>>]

\* lines 43-52
FrameAt44(game, user, handle) ==
    [session |-> handle, opponent |-> Opponent(game, user),
     result |-> Result(game, user), user_color |-> UserColor(game, user),
     ply |-> 0, best_moves |-> 0, total_moves |-> 0, log |-> <<>>]

\* lines 57-65, one iteration: half-move k is pushed, counted, and unless
\* skipped the engine's answer at the position reached is compared with it
FrameAfterMove(f, moves, best) ==
    [f EXCEPT
       !.ply = f.ply + 1,
       !.total_moves = f.total_moves + 1,
       !.best_moves =
          IF ~Skips(f.user_color, Turn(f.ply + 1))
             /\ best[QueriedPosition(f.ply + 1)] = moves[ComparedMove(f.ply + 1)]
          THEN f.best_moves + 1 ELSE f.best_moves,
       !.log =
          IF Skips(f.user_color, Turn(f.ply + 1)) THEN f.log
          ELSE Append(f.log, [pos |-> QueriedPosition(f.ply + 1),
                              cmp |-> ComparedMove(f.ply + 1)])]

NoResult == [oponente |-> "", resultado |-> "", precisao |-> 0, url |-> <<0, 0>>]

\* lines 67-74
GameResult(f, game) ==
    [oponente |-> f.opponent, resultado |-> f.result,
     precisao |-> Precisao(f.best_moves, f.total_moves), url |-> game.url]

(***************************************************************************)
(* analisar_usuario, lines 125-145.                                        *)
(***************************************************************************)
\* lines 130-133 without the try: what a future holds is appended whether
\* or not its call raised
RecolheM(det, estado, r) == Append(det, r)

\* lines 130-133: the result of a completed future is appended, the
\* exception of a failed one is printed
Recolhe(det, estado, r) == IF estado = "Completed" THEN Append(det, r) ELSE det

\* line 129 left at the first future yielded
TodosRecolhidosM(done, n) == done # {}

\* line 129: as_completed is exhausted when every future has been yielded
TodosRecolhidos(done, n) == done = 1..n

\* line 135 without its test
SemDetalhesM(det) == FALSE

\* line 135
SemDetalhes(det) == Len(det) = 0

SemResposta == [pendente |-> TRUE]

\* line 108 (the text without its accents)
ErroSemArquivos == [erro |-> "Usuario nao encontrado ou sem partidas."]

\* line 136
ErroSemPartidas == [erro |-> "Nenhuma partida encontrada para este usuario."]

\* lines 135-145
Resposta(user, det) ==
    IF SemDetalhes(det) THEN ErroSemPartidas
    ELSE [usuario |-> user, jogos_analisados |-> Len(det),
          detalhes |-> det, suspeito |-> avaliar_suspeita(det)]

(***************************************************************************)
(* State.                                                                  *)
(*   username, archives, engine  the request and what the archive service  *)
(*                   and the engine answer                                 *)
(*   pc              "idle", "pool" (inside the with block), "done";       *)
(*                   "score" and "scored" for the scorer on its own        *)
(*   partidas        the WorkUnits, in submission order                    *)
(*   ustate          per unit: "Pending", "Running", "Completed", "Failed" *)
(*   worker          per worker process: the unit it runs, 0 when idle     *)
(*   frame           per unit: the locals of its call                      *)
(*   ret             per unit: the GameResult returned                     *)
(*   collected       the futures as_completed has yielded                  *)
(*   detalhes        the list of line 125                                  *)
(*   sessionsStarted engine processes started so far                       *)
(*   avaliadas       the arguments avaliar_suspeita was called with        *)
(*   resposta        what the handler returned                             *)
(***************************************************************************)
VARIABLES username, archives, engine, pc, partidas, ustate, worker, frame,
          ret, collected, detalhes, sessionsStarted, avaliadas, resposta

vars == <<username, archives, engine, pc, partidas, ustate, worker, frame,
          ret, collected, detalhes, sessionsStarted, avaliadas, resposta>>

Units == DOMAIN partidas

Terminal == {"Completed", "Failed"}

InitWith(inputs) ==
    /\ username \in Usernames
    /\ \E cs \in inputs :
         /\ archives = ArchivesOf(cs)
         /\ engine = EngineOf(cs)
    /\ pc = "idle"
    /\ partidas = <<>>
    /\ ustate = <<>>
    /\ worker = [w \in 1..Workers |-> 0]
    /\ frame = <<>>
    /\ ret = <<>>
    /\ collected = {}
    /\ detalhes = <<>>
    /\ sessionsStarted = 0
    /\ avaliadas = <<>>
    /\ resposta = SemResposta

Init == InitWith(PoolInputs)

InitReplay == InitWith(ReplayInputs)

\* lines 104-108: no archive period
RequestNoArchives ==
    /\ pc = "idle"
    /\ archives = <<>>
    /\ resposta' = ErroSemArquivos
    /\ pc' = "done"
    /\ UNCHANGED <<username, archives, engine, partidas, ustate, worker,
                   frame, ret, collected, detalhes, sessionsStarted,
                   avaliadas>>

\* lines 104-127: the WorkUnits are built and submitted to the pool
RequestSubmit ==
    /\ pc = "idle"
    /\ archives # <<>>
    /\ partidas' = Partidas(archives, username)
    /\ ustate' = [i \in DOMAIN partidas' |-> "Pending"]
    /\ frame' = [i \in DOMAIN partidas' |-> NoFrame]
    /\ ret' = [i \in DOMAIN partidas' |-> NoResult]
    /\ pc' = "pool"
    /\ UNCHANGED <<username, archives, engine, worker, collected, detalhes,
                   sessionsStarted, avaliadas, resposta>>

Pending == {i \in Units : ustate[i] = "Pending"}

\* the pool hands out the calls in submission order
NextPending == CHOOSE i \in Pending : \A j \in Pending : i <= j

\* the worker processes are interchangeable: of the idle ones the
\* lowest-numbered takes the call
Takes(w) == worker[w] = 0 /\ \A v \in 1..Workers : worker[v] = 0 => w <= v

\* lines 43-52: an idle worker takes the next call; the engine starts
StartUnit(w) ==
    /\ pc = "pool"
    /\ Takes(w)
    /\ Pending # {}
    /\ worker' = [worker EXCEPT ![w] = NextPending]
    /\ ustate' = [ustate EXCEPT ![NextPending] = "Running"]
    /\ sessionsStarted' = StockfishStart(sessionsStarted)
    /\ frame' = [frame EXCEPT ![NextPending] =
                   FrameAt44(partidas[NextPending].game,
                             partidas[NextPending].username,
                             StockfishHandle(sessionsStarted'))]
    /\ UNCHANGED <<username, archives, engine, pc, partidas, ret, collected,
                   detalhes, avaliadas, resposta>>

\* line 44 raises: an idle worker takes the next call and the engine does
\* not start
EngineStartFails(w) ==
    /\ pc = "pool"
    /\ Takes(w)
    /\ Pending # {}
    /\ ustate' = [ustate EXCEPT ![NextPending] = "Failed"]
    /\ UNCHANGED <<username, archives, engine, pc, partidas, worker, frame,
                   ret, collected, detalhes, sessionsStarted, avaliadas,
                   resposta>>

Running(w) == pc = "pool" /\ worker[w] # 0

MovesOf(i) == partidas[i].game.pgn.moves

\* line 54 and the loop condition of line 57
InLoop(i) ==
    /\ partidas[i].game.pgn.present
    /\ frame[i].ply < Len(MovesOf(i))

\* lines 57-65: one iteration of the replay loop
ReplayMove(w) ==
    /\ Running(w)
    /\ InLoop(worker[w])
    /\ frame' = [frame EXCEPT ![worker[w]] =
                   FrameAfterMove(frame[worker[w]], MovesOf(worker[w]),
                                  engine[partidas[worker[w]].game.url])]
    /\ UNCHANGED <<username, archives, engine, pc, partidas, ustate, worker,
                   ret, collected, detalhes, sessionsStarted, avaliadas,
                   resposta>>

\* lines 67-74: the call returns its GameResult
FinishUnit(w) ==
    /\ Running(w)
    /\ ~InLoop(worker[w])
    /\ ret' = [ret EXCEPT ![worker[w]] =
                 GameResult(frame[worker[w]], partidas[worker[w]].game)]
    /\ ustate' = [ustate EXCEPT ![worker[w]] = "Completed"]
    /\ worker' = [worker EXCEPT ![w] = 0]
    /\ UNCHANGED <<username, archives, engine, pc, partidas, frame, collected,
                   detalhes, sessionsStarted, avaliadas, resposta>>

\* where a call can raise: before the loop (a key of the record is missing,
\* lines 46-48; python-chess cannot read the text, lines 55-56), and in an
\* iteration that asks the engine (the engine process fails, lines 62-63)
CanRaise(i) ==
    \/ frame[i].ply = 0
    \/ InLoop(i) /\ ~Skips(frame[i].user_color, Turn(frame[i].ply + 1))

\* the call raises
Raise(w) ==
    /\ Running(w)
    /\ CanRaise(worker[w])
    /\ ustate' = [ustate EXCEPT ![worker[w]] = "Failed"]
    /\ worker' = [worker EXCEPT ![w] = 0]
    /\ UNCHANGED <<username, archives, engine, pc, partidas, frame, ret,
                   collected, detalhes, sessionsStarted, avaliadas, resposta>>

\* lines 129-133: as_completed yields a future that is done
Collect(i) ==
    /\ pc = "pool"
    /\ i \notin collected
    /\ ustate[i] \in Terminal
    /\ collected' = collected \cup {i}
    /\ detalhes' = Recolhe(detalhes, ustate[i], ret[i])
    /\ UNCHANGED <<username, archives, engine, pc, partidas, ustate, worker,
                   frame, ret, sessionsStarted, avaliadas, resposta>>

\* lines 135-145
Respond ==
    /\ pc = "pool"
    /\ TodosRecolhidos(collected, Len(partidas))
    /\ resposta' = Resposta(username, detalhes)
    /\ avaliadas' = IF SemDetalhes(detalhes) THEN avaliadas
                    ELSE Append(avaliadas, detalhes)
    /\ pc' = "done"
    /\ UNCHANGED <<username, archives, engine, partidas, ustate, worker,
                   frame, ret, collected, detalhes, sessionsStarted>>

Next ==
    \/ RequestNoArchives
    \/ RequestSubmit
    \/ \E w \in 1..Workers : StartUnit(w)
    \/ \E w \in 1..Workers : EngineStartFails(w)
    \/ \E w \in 1..Workers : ReplayMove(w)
    \/ \E w \in 1..Workers : FinishUnit(w)
    \/ \E w \in 1..Workers : Raise(w)
    \/ \E i \in Units : Collect(i)
    \/ Respond

\* the pool: up to MaxGames records, Workers workers
Spec == Init /\ [][Next]_vars

\* the replay of one game, over every record and engine of ReplayCases
SpecReplay == InitReplay /\ [][Next]_vars

(***************************************************************************)
(* The scorer on its own: avaliar_suspeita applied to the batches of up to *)
(* MaxBatch GameResults whose accuracies are those of the counts below.    *)
(***************************************************************************)
\* <<best_moves, total_moves>> of a game
ScorerCounts == {<<0, 1>>, <<2, 5>>, <<9, 20>>, <<19, 20>>, <<1, 1>>}

ScorerGames ==
    {[oponente |-> "bob", resultado |-> r, precisao |-> Precisao(c[1], c[2]),
      url |-> <<1, 1>>] : r \in {"win", "resigned"}, c \in ScorerCounts}

InitScorer ==
    /\ username \in Usernames
    /\ archives = <<>>
    /\ engine = <<>>
    /\ pc = "score"
    /\ partidas = <<>>
    /\ ustate = <<>>
    /\ worker = [w \in 1..Workers |-> 0]
    /\ frame = <<>>
    /\ ret = <<>>
    /\ collected = {}
    /\ detalhes \in SeqsUpTo(ScorerGames, MaxBatch) \ {<<>>}
    /\ sessionsStarted = 0
    /\ avaliadas = <<>>
    /\ resposta = SemResposta

\* line 138
Avaliar ==
    /\ pc = "score"
    /\ resposta' = [suspeito |-> avaliar_suspeita(detalhes)]
    /\ avaliadas' = Append(avaliadas, detalhes)
    /\ pc' = "scored"
    /\ UNCHANGED <<username, archives, engine, partidas, ustate, worker,
                   frame, ret, collected, detalhes, sessionsStarted>>

SpecScorer == InitScorer /\ [][Avaliar]_vars

(***************************************************************************)
(* Properties.                                                             *)
(***************************************************************************)
FailedUnits == {i \in Units : ustate[i] = "Failed"}

CompletedUnits == {i \in Units : ustate[i] = "Completed"}

RunningUnits == {i \in Units : ustate[i] = "Running"}

IsReport(r) == "jogos_analisados" \in DOMAIN r

IsErro(r) == "erro" \in DOMAIN r

Records == UNION {{archives[a][g] : g \in DOMAIN archives[a]} : a \in DOMAIN archives}

\* the side of the record whose handle is the requested one, letter case
\* ignored
IsWhite(game) == game.has_players /\ Lower(game.white.username) = Lower(username)

IsBlack(game) == game.has_players /\ Lower(game.black.username) = Lower(username)

InDetalhes(r) == \E k \in DOMAIN detalhes : detalhes[k] = r

\* C1 as stated: when exactly one of the N units of a request has failed,
\* the handler ends with N-1 GameResults and returns a report.
C1_Original ==
    (pc = "done" /\ Cardinality(FailedUnits) = 1)
        => /\ Len(detalhes) = Len(partidas) - 1
           /\ IsReport(resposta)

\* C1, amended: when exactly one of N >= 2 units has failed, every other
\* unit has completed, detalhes holds exactly the N-1 results of the others
\* and the handler returns a report of N-1 games; when the only unit has
\* failed, the handler returns the error of line 136.
C1_OneFailureOfSeveral ==
    (pc = "done" /\ Cardinality(FailedUnits) = 1)
        => /\ Len(detalhes) = Len(partidas) - 1
           /\ \A i \in Units \ FailedUnits :
                ustate[i] = "Completed" /\ InDetalhes(ret[i])
           /\ \A i \in FailedUnits :
                \A k \in DOMAIN detalhes :
                   detalhes[k].url # partidas[i].game.url
           /\ Len(partidas) >= 2 =>
                /\ IsReport(resposta)
                /\ resposta.jogos_analisados = Len(partidas) - 1
                /\ resposta.detalhes = detalhes
           /\ Len(partidas) = 1 => resposta = ErroSemPartidas

C1_Witness ==
    /\ pc = "done"
    /\ Len(partidas) = 3
    /\ Cardinality(FailedUnits) = 1
    /\ IsReport(resposta)
    /\ detalhes[1].url # partidas[1].game.url

\* the two-decimal value of m/c * 100, in hundredths; 0 when c = 0
Hundredths(m, c) ==
    IF c = 0 THEN 0
    ELSE LET q == (10000 * m) \div c
             r == (10000 * m) % c
         IN  IF 2 * r > c \/ (2 * r = c /\ q % 2 = 1) THEN q + 1 ELSE q

\* the requested handle is stored in the same letter case, on one side only
ExactSide(game) ==
    /\ game.has_players
    /\ (game.white.username = username) # (game.black.username = username)
    /\ ~(IsWhite(game) /\ IsBlack(game))

\* the half-moves the requested player made: those played from a position
\* where the player's colour is to move
TargetPlies(game) ==
    {k \in 1..Len(game.pgn.moves) :
        Turn(k - 1) = (IF IsWhite(game) THEN "WHITE" ELSE "BLACK")}

\* those of them that are the engine's best move at the position they were
\* played from
MatchedPlies(game) ==
    {k \in TargetPlies(game) : game.pgn.moves[k] = engine[game.url][k - 1]}

\* C2: the accuracy of a GameResult is matched/considered * 100 to two
\* decimals, over the half-moves of the requested player; 0 when there are
\* none.  (Stated for the records that store the handle as requested.)
C2_Accuracy ==
    \A i \in CompletedUnits :
        ExactSide(partidas[i].game)
            => ret[i].precisao =
                 Hundredths(Cardinality(MatchedPlies(partidas[i].game)),
                            Cardinality(TargetPlies(partidas[i].game)))

\* C3: when the requested handle is one side's handle, letter case ignored,
\* the GameResult has that side's colour and result and the other side's
\* handle as opponent.
C3_Attribution ==
    \A i \in CompletedUnits :
        /\ (IsWhite(partidas[i].game) /\ ~IsBlack(partidas[i].game))
              => /\ frame[i].user_color = "white"
                 /\ ret[i].resultado = partidas[i].game.white.result
                 /\ ret[i].oponente = partidas[i].game.black.username
        /\ (IsBlack(partidas[i].game) /\ ~IsWhite(partidas[i].game))
              => /\ frame[i].user_color = "black"
                 /\ ret[i].resultado = partidas[i].game.black.result
                 /\ ret[i].oponente = partidas[i].game.white.username

MatchingRecords == {r \in Records : IsWhite(r) \/ IsBlack(r)}

RECURSIVE SumHundredths(_, _)
SumHundredths(jogos_H, n_H) ==
    IF n_H = 0 THEN 0
    ELSE SumHundredths(jogos_H, n_H - 1) + jogos_H[n_H].precisao

\* 100 * (0.5 * mean/100 + 0.3 * wins/total + 0.2 * high/total) >= 75, with
\* the accuracies in hundredths: both sides times 200 * total
ScoreAtLeast75(jogos) ==
    SumHundredths(jogos, Len(jogos))
      + 6000 * Cardinality({i \in DOMAIN jogos : jogos[i].resultado = "win"})
      + 4000 * Cardinality({i \in DOMAIN jogos : jogos[i].precisao > 9000})
    >= 15000 * Len(jogos)

\* C5: for a non-empty batch the scorer answers true exactly when
\* 100 * (0.5 * mean_accuracy/100 + 0.3 * wins/total + 0.2 * high/total)
\* is at least 75.
C5_Verdict ==
    pc = "scored" => (resposta.suspeito <=> ScoreAtLeast75(detalhes))

\* C6: a request that ends with no analysed unit returns an error payload,
\* the scorer is never called with an empty batch, and a request without
\* archives has no WorkUnit and starts no engine.
C6_EmptyBatch ==
    /\ (pc = "done" /\ Len(detalhes) = 0)
          => IsErro(resposta) /\ avaliadas = <<>>
    /\ \A k \in DOMAIN avaliadas : Len(avaliadas[k]) > 0
    /\ IsReport(resposta) => resposta.jogos_analisados > 0
    /\ archives = <<>> => partidas = <<>> /\ sessionsStarted = 0

C6_Witness ==
    /\ pc = "done"
    /\ Len(partidas) >= 2
    /\ FailedUnits = Units
    /\ sessionsStarted >= 1
    /\ resposta = ErroSemPartidas

\* C7: the handler answers only when every submitted unit is Completed or
\* Failed and collected, and the scorer sees the results of all the
\* completed units.
C7_AnswerAfterAll ==
    pc = "done" =>
        /\ \A i \in Units : ustate[i] \in Terminal /\ i \in collected
        /\ \A k \in DOMAIN avaliadas :
              {avaliadas[k][j] : j \in DOMAIN avaliadas[k]}
                 = {ret[i] : i \in CompletedUnits}

C7_Witness ==
    /\ pc = "done"
    /\ Len(partidas) >= 2
    /\ IsReport(resposta)
    /\ Len(avaliadas) = 1

\* the two half-moves of C8 for one target half-move k: the engine is asked
\* at the position before it, and it is the move compared
ClaimedQuery(k) == [pos |-> k - 1, cmp |-> k]

\* C8: the engine is queried once per half-move of the requested player, in
\* order, at the position before that half-move, and the answer is compared
\* with that half-move; never for a half-move of the opponent.
C8_QueryPerTargetMove ==
    \A i \in CompletedUnits :
        ExactSide(partidas[i].game)
            => /\ Len(frame[i].log)
                    = Cardinality(TargetPlies(partidas[i].game))
               /\ {frame[i].log[j] : j \in DOMAIN frame[i].log}
                    = {ClaimedQuery(k) : k \in TargetPlies(partidas[i].game)}
               /\ \A j \in DOMAIN frame[i].log :
                     j > 1 => frame[i].log[j - 1].pos < frame[i].log[j].pos

C10_NoSharedSession ==
    /\ \A i \in RunningUnits : frame[i].session # 0
    /\ \A i, j \in RunningUnits :
          i # j => frame[i].session # frame[j].session
    /\ \A i \in RunningUnits :
          Cardinality({w \in 1..Workers : worker[w] = i}) = 1

C10_Witness ==
    \E i, j \in RunningUnits :
        /\ i # j
        /\ frame[i].ply > 0
        /\ frame[j].ply > 0

==========================================================================
